---------------------------- MODULE Spec2Model ----------------------------
(***************************************************************************)
(* A model of the Clox bytecode virtual machine (src/src/vm.c, vm.h).      *)
(*                                                                         *)
(* The VM struct is one record-valued variable, vm.  Stack addresses are   *)
(* offsets from vm.stack (0-based, as in C); the address of the closed     *)
(* field of the upvalue object number u is written -u, so that an upvalue  *)
(* location is one integer whether it points into the stack or into the    *)
(* heap.  Heap objects that the VM mutates (closures, upvalues) live in    *)
(* vm.objects in allocation order and are referred to by their index;      *)
(* strings, natives and functions are immutable and are held by value.     *)
(* Numbers are the doubles that are small integers.                        *)
(***************************************************************************)
EXTENDS Integers, Sequences, FiniteSets, TLC

VARIABLES
  vm,           \* the VM struct: stack, stackTop, frames, frameCount, globals,
                \* openUpvalues, objects
  result,       \* "NONE", "RUNNING" inside run(), or what interpret() returned
  instruction,  \* run()'s local: the opcode read last ("" before the first)
  history,      \* the source texts passed to interpret() so far, in order
  stdout,       \* the values the current or last interpret() call printed
  stderr,       \* the lines the current or last interpret() call wrote to stderr
  ub,           \* a push wrote outside vm.stack, or run() began without a frame
  \* history variables: they record what happened and steer nothing
  gen,          \* stack slot -> how many times the slot was vacated
  ident,        \* per object: for a closure, the variable each upvalue entry
                \* captured, as <<stack slot, gen of the slot at the capture>>
  retired,      \* captured variables whose slot was vacated by an instruction
                \* that completed (a scope ended or a function returned)
  written       \* retired variable -> the value last assigned to it and the
                \* closure whose OP_SET_UPVALUE assigned it

progVars == <<vm, result, instruction, history, stdout, stderr, ub>>

ghostVars == <<gen, ident, retired, written>>

vars == <<vm, result, instruction, history, stdout, stderr, ub,
          gen, ident, retired, written>>

\* the number of interpret() calls made, and the source text of the last one
runs == Len(history)

source == IF history = <<>> THEN "" ELSE history[Len(history)]

-----------------------------------------------------------------------------
(* Bounds of the model. *)

\* how many times the host calls interpret() on the one VM
MaxRuns == 2

\* the values clock() may return are 0..MaxClock
MaxClock == 1
MaxFree == 128

-----------------------------------------------------------------------------
(* Program constants. *)

FRAMES_MAX == 64

UINT8_COUNT == 256

STACK_MAX == FRAMES_MAX * UINT8_COUNT

NULL == 0

-----------------------------------------------------------------------------
(* Values: a tag and a payload. *)

NIL_VAL == [t |-> "nil", v |-> 0]

BOOL_VAL(b) == [t |-> "bool", v |-> b]

NUMBER_VAL(n) == [t |-> "number", v |-> n]

STRING_VAL(s) == [t |-> "string", v |-> s]

FUNCTION_VAL(f) == [t |-> "function", v |-> f]

NATIVE_VAL(n) == [t |-> "native", v |-> n]

CLOSURE_VAL(c) == [t |-> "closure", v |-> c]

\* OBJ_VAL of an ObjUpvalue
UPVALUE_VAL(u) == [t |-> "upvalue", v |-> u]

IS_NIL(x) == x.t = "nil"

IS_BOOL(x) == x.t = "bool"

IS_NUMBER(x) == x.t = "number"

IS_STRING(x) == x.t = "string"

IS_OBJ(x) == x.t \in {"string", "function", "native", "closure", "upvalue"}

isFalsey(x) == IS_NIL(x) \/ (IS_BOOL(x) /\ ~x.v)

\* strings are interned, so identity of string objects is equality of bytes;
\* closures are compared by identity (their heap index)
valuesEqual(a, b) == a.t = b.t /\ a.v = b.v

-----------------------------------------------------------------------------
(* Heap objects. *)

newUpvalue(slot) ==
  [type |-> "upvalue", location |-> slot, closed |-> NIL_VAL, next |-> NULL]

newClosure(function, upvalueCount) ==
  [type |-> "closure", function |-> function,
   upvalues |-> [i \in 1..upvalueCount |-> NULL]]

-----------------------------------------------------------------------------
(* Compiled functions.  compile() turns a source text into a function      *)
(* object: arity, upvalue count, name ("" for the nameless top-level       *)
(* script), a chunk of code bytes and a constant pool.  The chunks below   *)
(* are what the single-pass compiler emits for the source quoted above     *)
(* each of them.  Code offsets and constant indices are 0-based.           *)

Function(name, arity, upvalueCount, code, constants) ==
  [name |-> name, arity |-> arity, upvalueCount |-> upvalueCount,
   code |-> code, constants |-> constants]

\* fun make() { var x = 0; fun inc() { x = x + 1; return x; } return inc; }
\* var c = make(); print c(); print c(); print c();
Fn_counter ==
  Function("", 0, 0,
    <<"OP_CLOSURE", 1, "OP_DEFINE_GLOBAL", 0,
      "OP_GET_GLOBAL", 0, "OP_CALL", 0, "OP_DEFINE_GLOBAL", 2,
      "OP_GET_GLOBAL", 2, "OP_CALL", 0, "OP_PRINT",
      "OP_GET_GLOBAL", 2, "OP_CALL", 0, "OP_PRINT",
      "OP_GET_GLOBAL", 2, "OP_CALL", 0, "OP_PRINT",
      "OP_NIL", "OP_RETURN">>,
    <<STRING_VAL("make"), FUNCTION_VAL("make"), STRING_VAL("c")>>)

Fn_make ==
  Function("make", 0, 0,
    <<"OP_CONSTANT", 0, "OP_CLOSURE", 1, 1, 1, "OP_GET_LOCAL", 2, "OP_RETURN",
      "OP_NIL", "OP_RETURN">>,
    <<NUMBER_VAL(0), FUNCTION_VAL("inc")>>)

Fn_inc ==
  Function("inc", 0, 1,
    <<"OP_GET_UPVALUE", 0, "OP_CONSTANT", 0, "OP_ADD", "OP_SET_UPVALUE", 0,
      "OP_POP", "OP_GET_UPVALUE", 0, "OP_RETURN", "OP_NIL", "OP_RETURN">>,
    <<NUMBER_VAL(1)>>)

\* print c();
Fn_again ==
  Function("", 0, 0,
    <<"OP_GET_GLOBAL", 0, "OP_CALL", 0, "OP_PRINT", "OP_NIL", "OP_RETURN">>,
    <<STRING_VAL("c")>>)

\* var g; var s;
\* fun pair() { var x = 1; fun get() { return x; } fun set(v) { x = v; }
\*              g = get; s = set; set(2); print get(); print x; }
\* pair(); s(5); print g();
Fn_shared ==
  Function("", 0, 0,
    <<"OP_NIL", "OP_DEFINE_GLOBAL", 0, "OP_NIL", "OP_DEFINE_GLOBAL", 1,
      "OP_CLOSURE", 3, "OP_DEFINE_GLOBAL", 2,
      "OP_GET_GLOBAL", 2, "OP_CALL", 0, "OP_POP",
      "OP_GET_GLOBAL", 1, "OP_CONSTANT", 4, "OP_CALL", 1, "OP_POP",
      "OP_GET_GLOBAL", 0, "OP_CALL", 0, "OP_PRINT",
      "OP_NIL", "OP_RETURN">>,
    <<STRING_VAL("g"), STRING_VAL("s"), STRING_VAL("pair"),
      FUNCTION_VAL("pair"), NUMBER_VAL(5)>>)

Fn_pair ==
  Function("pair", 0, 0,
    <<"OP_CONSTANT", 0,
      "OP_CLOSURE", 1, 1, 1,
      "OP_CLOSURE", 2, 1, 1,
      "OP_GET_LOCAL", 2, "OP_SET_GLOBAL", 3, "OP_POP",
      "OP_GET_LOCAL", 3, "OP_SET_GLOBAL", 4, "OP_POP",
      "OP_GET_LOCAL", 3, "OP_CONSTANT", 5, "OP_CALL", 1, "OP_POP",
      "OP_GET_LOCAL", 2, "OP_CALL", 0, "OP_PRINT",
      "OP_GET_LOCAL", 1, "OP_PRINT",
      "OP_NIL", "OP_RETURN">>,
    <<NUMBER_VAL(1), FUNCTION_VAL("get"), FUNCTION_VAL("set"),
      STRING_VAL("g"), STRING_VAL("s"), NUMBER_VAL(2)>>)

Fn_get ==
  Function("get", 0, 1,
    <<"OP_GET_UPVALUE", 0, "OP_RETURN", "OP_NIL", "OP_RETURN">>, <<>>)

Fn_set ==
  Function("set", 1, 1,
    <<"OP_GET_LOCAL", 1, "OP_SET_UPVALUE", 0, "OP_POP", "OP_NIL", "OP_RETURN">>,
    <<>>)

\* s(7); print g();
Fn_useShared ==
  Function("", 0, 0,
    <<"OP_GET_GLOBAL", 0, "OP_CONSTANT", 1, "OP_CALL", 1, "OP_POP",
      "OP_GET_GLOBAL", 2, "OP_CALL", 0, "OP_PRINT", "OP_NIL", "OP_RETURN">>,
    <<STRING_VAL("s"), NUMBER_VAL(7), STRING_VAL("g")>>)

\* var i; var q;
\* fun outer() { var x = 10;
\*   fun mid() { fun bump() { x = x + 1; return x; } fun read() { return x; }
\*               i = bump; q = read; }
\*   return mid; }
\* var m = outer(); m(); print i(); print q();
Fn_nested ==
  Function("", 0, 0,
    <<"OP_NIL", "OP_DEFINE_GLOBAL", 0, "OP_NIL", "OP_DEFINE_GLOBAL", 1,
      "OP_CLOSURE", 3, "OP_DEFINE_GLOBAL", 2,
      "OP_GET_GLOBAL", 2, "OP_CALL", 0, "OP_DEFINE_GLOBAL", 4,
      "OP_GET_GLOBAL", 4, "OP_CALL", 0, "OP_POP",
      "OP_GET_GLOBAL", 0, "OP_CALL", 0, "OP_PRINT",
      "OP_GET_GLOBAL", 1, "OP_CALL", 0, "OP_PRINT",
      "OP_NIL", "OP_RETURN">>,
    <<STRING_VAL("i"), STRING_VAL("q"), STRING_VAL("outer"),
      FUNCTION_VAL("outer"), STRING_VAL("m")>>)

Fn_outer ==
  Function("outer", 0, 0,
    <<"OP_CONSTANT", 0, "OP_CLOSURE", 1, 1, 1, "OP_GET_LOCAL", 2, "OP_RETURN",
      "OP_NIL", "OP_RETURN">>,
    <<NUMBER_VAL(10), FUNCTION_VAL("mid")>>)

Fn_mid ==
  Function("mid", 0, 1,
    <<"OP_CLOSURE", 0, 0, 0,
      "OP_CLOSURE", 1, 0, 0,
      "OP_GET_LOCAL", 1, "OP_SET_GLOBAL", 2, "OP_POP",
      "OP_GET_LOCAL", 2, "OP_SET_GLOBAL", 3, "OP_POP",
      "OP_NIL", "OP_RETURN">>,
    <<FUNCTION_VAL("bump"), FUNCTION_VAL("read"),
      STRING_VAL("i"), STRING_VAL("q")>>)

Fn_bump ==
  Function("bump", 0, 1,
    <<"OP_GET_UPVALUE", 0, "OP_CONSTANT", 0, "OP_ADD", "OP_SET_UPVALUE", 0,
      "OP_POP", "OP_GET_UPVALUE", 0, "OP_RETURN", "OP_NIL", "OP_RETURN">>,
    <<NUMBER_VAL(1)>>)

Fn_read ==
  Function("read", 0, 1,
    <<"OP_GET_UPVALUE", 0, "OP_RETURN", "OP_NIL", "OP_RETURN">>, <<>>)

\* var f;
\* { var a = 1; var b = 2; var c = 3; fun h() { return c + a + b; }
\*   f = h; b = 20; }
\* print f();
Fn_block ==
  Function("", 0, 0,
    <<"OP_NIL", "OP_DEFINE_GLOBAL", 0,
      "OP_CONSTANT", 1, "OP_CONSTANT", 2, "OP_CONSTANT", 3,
      "OP_CLOSURE", 4, 1, 3, 1, 1, 1, 2,
      "OP_GET_LOCAL", 4, "OP_SET_GLOBAL", 0, "OP_POP",
      "OP_CONSTANT", 5, "OP_SET_LOCAL", 2, "OP_POP",
      "OP_POP", "OP_CLOSE_UPVALUE", "OP_CLOSE_UPVALUE", "OP_CLOSE_UPVALUE",
      "OP_GET_GLOBAL", 0, "OP_CALL", 0, "OP_PRINT",
      "OP_NIL", "OP_RETURN">>,
    <<STRING_VAL("f"), NUMBER_VAL(1), NUMBER_VAL(2), NUMBER_VAL(3),
      FUNCTION_VAL("h"), NUMBER_VAL(20)>>)

Fn_h ==
  Function("h", 0, 3,
    <<"OP_GET_UPVALUE", 0, "OP_GET_UPVALUE", 1, "OP_ADD",
      "OP_GET_UPVALUE", 2, "OP_ADD", "OP_RETURN", "OP_NIL", "OP_RETURN">>,
    <<>>)

\* for (var i = 0; i < 3; i = i + 1) print i;
Fn_loop ==
  Function("", 0, 0,
    <<"OP_CONSTANT", 0,
      "OP_GET_LOCAL", 1, "OP_CONSTANT", 1, "OP_LESS",
      "OP_JUMP_IF_FALSE", 0, 21, "OP_POP", "OP_JUMP", 0, 11,
      "OP_GET_LOCAL", 1, "OP_CONSTANT", 2, "OP_ADD", "OP_SET_LOCAL", 1,
      "OP_POP", "OP_LOOP", 0, 23,
      "OP_GET_LOCAL", 1, "OP_PRINT", "OP_LOOP", 0, 17,
      "OP_POP", "OP_POP", "OP_NIL", "OP_RETURN">>,
    <<NUMBER_VAL(0), NUMBER_VAL(3), NUMBER_VAL(1)>>)

\* var a = "st"; var b = "r"; print a + b + "ing";
Fn_concat ==
  Function("", 0, 0,
    <<"OP_CONSTANT", 1, "OP_DEFINE_GLOBAL", 0,
      "OP_CONSTANT", 3, "OP_DEFINE_GLOBAL", 2,
      "OP_GET_GLOBAL", 0, "OP_GET_GLOBAL", 2, "OP_ADD",
      "OP_CONSTANT", 4, "OP_ADD", "OP_PRINT", "OP_NIL", "OP_RETURN">>,
    <<STRING_VAL("a"), STRING_VAL("st"), STRING_VAL("b"), STRING_VAL("r"),
      STRING_VAL("ing")>>)

\* print (6 / 3 - 1) * 2 > 1 == true; print !false; print -1;
Fn_arith ==
  Function("", 0, 0,
    <<"OP_CONSTANT", 0, "OP_CONSTANT", 1, "OP_DIVIDE",
      "OP_CONSTANT", 2, "OP_SUBTRACT", "OP_CONSTANT", 3, "OP_MULTIPLY",
      "OP_CONSTANT", 2, "OP_GREATER", "OP_TRUE", "OP_EQUAL", "OP_PRINT",
      "OP_FALSE", "OP_NOT", "OP_PRINT",
      "OP_CONSTANT", 2, "OP_NEGATE", "OP_PRINT",
      "OP_NIL", "OP_RETURN">>,
    <<NUMBER_VAL(6), NUMBER_VAL(3), NUMBER_VAL(1), NUMBER_VAL(2)>>)

\* print undefined;
Fn_undefGet ==
  Function("", 0, 0,
    <<"OP_GET_GLOBAL", 0, "OP_PRINT", "OP_NIL", "OP_RETURN">>,
    <<STRING_VAL("undefined")>>)

\* undefined = 1;
Fn_undefSet ==
  Function("", 0, 0,
    <<"OP_CONSTANT", 1, "OP_SET_GLOBAL", 0, "OP_POP", "OP_NIL", "OP_RETURN">>,
    <<STRING_VAL("undefined"), NUMBER_VAL(1)>>)

\* fun f(a, b) { return a; } print f(1);
Fn_arity ==
  Function("", 0, 0,
    <<"OP_CLOSURE", 1, "OP_DEFINE_GLOBAL", 0,
      "OP_GET_GLOBAL", 0, "OP_CONSTANT", 2, "OP_CALL", 1, "OP_PRINT",
      "OP_NIL", "OP_RETURN">>,
    <<STRING_VAL("f"), FUNCTION_VAL("f"), NUMBER_VAL(1)>>)

Fn_f ==
  Function("f", 2, 0,
    <<"OP_GET_LOCAL", 1, "OP_RETURN", "OP_NIL", "OP_RETURN">>, <<>>)

\* fun r() { r(); } r();
Fn_recurse ==
  Function("", 0, 0,
    <<"OP_CLOSURE", 1, "OP_DEFINE_GLOBAL", 0,
      "OP_GET_GLOBAL", 0, "OP_CALL", 0, "OP_POP", "OP_NIL", "OP_RETURN">>,
    <<STRING_VAL("r"), FUNCTION_VAL("r")>>)

Fn_r ==
  Function("r", 0, 0,
    <<"OP_GET_GLOBAL", 0, "OP_CALL", 0, "OP_POP", "OP_NIL", "OP_RETURN">>,
    <<STRING_VAL("r")>>)

\* fun d(n) { if (n < 62) d(n + 1); else d(); } d(0);
Fn_deep ==
  Function("", 0, 0,
    <<"OP_CLOSURE", 1, "OP_DEFINE_GLOBAL", 0,
      "OP_GET_GLOBAL", 0, "OP_CONSTANT", 2, "OP_CALL", 1, "OP_POP",
      "OP_NIL", "OP_RETURN">>,
    <<STRING_VAL("d"), FUNCTION_VAL("d"), NUMBER_VAL(0)>>)

Fn_d ==
  Function("d", 1, 0,
    <<"OP_GET_LOCAL", 1, "OP_CONSTANT", 0, "OP_LESS",
      "OP_JUMP_IF_FALSE", 0, 14, "OP_POP",
      "OP_GET_GLOBAL", 1, "OP_GET_LOCAL", 1, "OP_CONSTANT", 2, "OP_ADD",
      "OP_CALL", 1, "OP_POP", "OP_JUMP", 0, 6,
      "OP_POP", "OP_GET_GLOBAL", 1, "OP_CALL", 0, "OP_POP",
      "OP_NIL", "OP_RETURN">>,
    <<NUMBER_VAL(62), STRING_VAL("d"), NUMBER_VAL(1)>>)

\* { var a = 7; print clock(a, 2); }
Fn_native ==
  Function("", 0, 0,
    <<"OP_CONSTANT", 0,
      "OP_GET_GLOBAL", 1, "OP_GET_LOCAL", 1, "OP_CONSTANT", 2, "OP_CALL", 2,
      "OP_PRINT", "OP_POP", "OP_NIL", "OP_RETURN">>,
    <<NUMBER_VAL(7), STRING_VAL("clock"), NUMBER_VAL(2)>>)

\* print clock();
Fn_clock ==
  Function("", 0, 0,
    <<"OP_GET_GLOBAL", 0, "OP_CALL", 0, "OP_PRINT", "OP_NIL", "OP_RETURN">>,
    <<STRING_VAL("clock")>>)

\* fun u(n) { if (n < 62) u(n + 1); } u(0);
Fn_climb ==
  Function("", 0, 0,
    <<"OP_CLOSURE", 1, "OP_DEFINE_GLOBAL", 0,
      "OP_GET_GLOBAL", 0, "OP_CONSTANT", 2, "OP_CALL", 1, "OP_POP",
      "OP_NIL", "OP_RETURN">>,
    <<STRING_VAL("u"), FUNCTION_VAL("u"), NUMBER_VAL(0)>>)

Fn_u ==
  Function("u", 1, 0,
    <<"OP_GET_LOCAL", 1, "OP_CONSTANT", 0, "OP_LESS",
      "OP_JUMP_IF_FALSE", 0, 14, "OP_POP",
      "OP_GET_GLOBAL", 1, "OP_GET_LOCAL", 1, "OP_CONSTANT", 2, "OP_ADD",
      "OP_CALL", 1, "OP_POP", "OP_JUMP", 0, 1,
      "OP_POP", "OP_NIL", "OP_RETURN">>,
    <<NUMBER_VAL(62), STRING_VAL("u"), NUMBER_VAL(1)>>)

\* "s"(1);
Fn_notCallable ==
  Function("", 0, 0,
    <<"OP_CONSTANT", 0, "OP_CONSTANT", 1, "OP_CALL", 1, "OP_POP",
      "OP_NIL", "OP_RETURN">>,
    <<STRING_VAL("s"), NUMBER_VAL(1)>>)

\* print 1 + "s";
Fn_addMixed ==
  Function("", 0, 0,
    <<"OP_CONSTANT", 0, "OP_CONSTANT", 1, "OP_ADD", "OP_PRINT",
      "OP_NIL", "OP_RETURN">>,
    <<NUMBER_VAL(1), STRING_VAL("s")>>)

\* print 1 <op> nil;   for the binary operators that take numbers only
BinaryOnNil(op) ==
  Function("", 0, 0,
    <<"OP_CONSTANT", 0, "OP_NIL", op, "OP_PRINT", "OP_NIL", "OP_RETURN">>,
    <<NUMBER_VAL(1)>>)

\* fun t(a) { var k = 2; return k * -a; } t("x");
Fn_typeError ==
  Function("", 0, 0,
    <<"OP_CLOSURE", 1, "OP_DEFINE_GLOBAL", 0,
      "OP_GET_GLOBAL", 0, "OP_CONSTANT", 2, "OP_CALL", 1, "OP_POP",
      "OP_NIL", "OP_RETURN">>,
    <<STRING_VAL("t"), FUNCTION_VAL("t"), STRING_VAL("x")>>)

Fn_t ==
  Function("t", 1, 0,
    <<"OP_CONSTANT", 0, "OP_GET_LOCAL", 2, "OP_GET_LOCAL", 1, "OP_NEGATE",
      "OP_MULTIPLY", "OP_RETURN", "OP_NIL", "OP_RETURN">>,
    <<NUMBER_VAL(2)>>)

\* var g;
\* fun e() { var x = 1; fun w() { x = x + 1; return x; } g = w; nil(); }
\* e();
Fn_dangling ==
  Function("", 0, 0,
    <<"OP_NIL", "OP_DEFINE_GLOBAL", 0, "OP_CLOSURE", 2, "OP_DEFINE_GLOBAL", 1,
      "OP_GET_GLOBAL", 1, "OP_CALL", 0, "OP_POP", "OP_NIL", "OP_RETURN">>,
    <<STRING_VAL("g"), STRING_VAL("e"), FUNCTION_VAL("e")>>)

Fn_e ==
  Function("e", 0, 0,
    <<"OP_CONSTANT", 0, "OP_CLOSURE", 1, 1, 1,
      "OP_GET_LOCAL", 2, "OP_SET_GLOBAL", 2, "OP_POP",
      "OP_NIL", "OP_CALL", 0, "OP_POP", "OP_NIL", "OP_RETURN">>,
    <<NUMBER_VAL(1), FUNCTION_VAL("w"), STRING_VAL("g")>>)

Fn_w ==
  Function("w", 0, 1,
    <<"OP_GET_UPVALUE", 0, "OP_CONSTANT", 0, "OP_ADD", "OP_SET_UPVALUE", 0,
      "OP_POP", "OP_GET_UPVALUE", 0, "OP_RETURN", "OP_NIL", "OP_RETURN">>,
    <<NUMBER_VAL(1)>>)

\* print g();
Fn_useG ==
  Function("", 0, 0,
    <<"OP_GET_GLOBAL", 0, "OP_CALL", 0, "OP_PRINT", "OP_NIL", "OP_RETURN">>,
    <<STRING_VAL("g")>>)

\* fun keep() { var x = 1; fun add1() { x = x + 1; } add1(); return x; }
\* print keep();
Fn_live ==
  Function("", 0, 0,
    <<"OP_CLOSURE", 1, "OP_DEFINE_GLOBAL", 0,
      "OP_GET_GLOBAL", 0, "OP_CALL", 0, "OP_PRINT", "OP_NIL", "OP_RETURN">>,
    <<STRING_VAL("keep"), FUNCTION_VAL("keep")>>)

Fn_keep ==
  Function("keep", 0, 0,
    <<"OP_CONSTANT", 0, "OP_CLOSURE", 1, 1, 1,
      "OP_GET_LOCAL", 2, "OP_CALL", 0, "OP_POP",
      "OP_GET_LOCAL", 1, "OP_RETURN", "OP_NIL", "OP_RETURN">>,
    <<NUMBER_VAL(1), FUNCTION_VAL("add1")>>)

Fn_add1 ==
  Function("add1", 0, 1,
    <<"OP_GET_UPVALUE", 0, "OP_CONSTANT", 0, "OP_ADD", "OP_SET_UPVALUE", 0,
      "OP_POP", "OP_NIL", "OP_RETURN">>,
    <<NUMBER_VAL(1)>>)

\* fun sub(a, b) { return a - b; } print sub(5, 2);
Fn_args ==
  Function("", 0, 0,
    <<"OP_CLOSURE", 1, "OP_DEFINE_GLOBAL", 0,
      "OP_GET_GLOBAL", 0, "OP_CONSTANT", 2, "OP_CONSTANT", 3, "OP_CALL", 2,
      "OP_PRINT", "OP_NIL", "OP_RETURN">>,
    <<STRING_VAL("sub"), FUNCTION_VAL("sub"), NUMBER_VAL(5), NUMBER_VAL(2)>>)

Fn_sub ==
  Function("sub", 2, 0,
    <<"OP_GET_LOCAL", 1, "OP_GET_LOCAL", 2, "OP_SUBTRACT", "OP_RETURN",
      "OP_NIL", "OP_RETURN">>, <<>>)

\* nil == (nil == (nil == ( ... ))), nested deeper than the operand stack:
\* the left operands are pushed before the first OP_EQUAL runs
Fn_pushes ==
  Function("", 0, 0, [k \in 1..STACK_MAX |-> "OP_NIL"], <<>>)

\* callee(nil, ...) with argCount arguments: the chunk that loads the value
\* callee and calls it.  For a function or an upvalue object the chunk is
\* assembled by hand: no source text makes the compiler load one.
CallOn(callee, argCount) ==
  Function("", 0, 0,
    <<"OP_CONSTANT", 0>> \o [k \in 1..argCount |-> "OP_NIL"] \o
    <<"OP_CALL", argCount, "OP_POP", "OP_NIL", "OP_RETURN">>,
    <<callee>>)

Functions ==
  [counter |-> Fn_counter, make |-> Fn_make, inc |-> Fn_inc, again |-> Fn_again,
   shared |-> Fn_shared, pair |-> Fn_pair, get |-> Fn_get, set |-> Fn_set,
   useShared |-> Fn_useShared,
   nested |-> Fn_nested, outer |-> Fn_outer, mid |-> Fn_mid, bump |-> Fn_bump,
   read |-> Fn_read,
   block |-> Fn_block, h |-> Fn_h,
   loop |-> Fn_loop, concat |-> Fn_concat, arith |-> Fn_arith,
   undefGet |-> Fn_undefGet, undefSet |-> Fn_undefSet,
   arity |-> Fn_arity, f |-> Fn_f,
   recurse |-> Fn_recurse, r |-> Fn_r, deep |-> Fn_deep, d |-> Fn_d,
   climb |-> Fn_climb, u |-> Fn_u,
   native |-> Fn_native, clock |-> Fn_clock, notCallable |-> Fn_notCallable,
   addMixed |-> Fn_addMixed,
   subNil |-> BinaryOnNil("OP_SUBTRACT"), mulNil |-> BinaryOnNil("OP_MULTIPLY"),
   divNil |-> BinaryOnNil("OP_DIVIDE"), greaterNil |-> BinaryOnNil("OP_GREATER"),
   lessNil |-> BinaryOnNil("OP_LESS"),
   typeError |-> Fn_typeError, t |-> Fn_t,
   dangling |-> Fn_dangling, e |-> Fn_e, w |-> Fn_w, useG |-> Fn_useG,
   args |-> Fn_args, sub |-> Fn_sub,
   live |-> Fn_live, keep |-> Fn_keep, add1 |-> Fn_add1,
   callNil0 |-> CallOn(NIL_VAL, 0), callNil1 |-> CallOn(NIL_VAL, 1),
   callNil2 |-> CallOn(NIL_VAL, 2), callBool0 |-> CallOn(BOOL_VAL(TRUE), 0),
   callBool1 |-> CallOn(BOOL_VAL(TRUE), 1), callBool2 |-> CallOn(BOOL_VAL(TRUE), 2),
   callNumber0 |-> CallOn(NUMBER_VAL(3), 0), callNumber1 |-> CallOn(NUMBER_VAL(3), 1),
   callNumber2 |-> CallOn(NUMBER_VAL(3), 2), callString0 |-> CallOn(STRING_VAL("s"), 0),
   callString1 |-> CallOn(STRING_VAL("s"), 1), callString2 |-> CallOn(STRING_VAL("s"), 2),
   callFunction0 |-> CallOn(FUNCTION_VAL("sub"), 0), callFunction1 |-> CallOn(FUNCTION_VAL("sub"), 1),
   callFunction2 |-> CallOn(FUNCTION_VAL("sub"), 2), callUpvalue0 |-> CallOn(UPVALUE_VAL(1), 0),
   callUpvalue1 |-> CallOn(UPVALUE_VAL(1), 1), callUpvalue2 |-> CallOn(UPVALUE_VAL(1), 2),
   pushes |-> Fn_pushes]

\* the source texts the host passes to interpret(); "syntaxError" does not
\* compile
Sources ==
  {"counter", "again", "shared", "useShared", "nested", "block", "loop",
   "concat", "arith", "undefGet", "undefSet", "arity", "recurse",
   "native", "clock", "notCallable", "addMixed", "subNil", "mulNil", "divNil",
   "greaterNil", "lessNil", "typeError", "dangling", "useG", "args", "live",
   "syntaxError"}

\* the chunks that call a value that is neither a closure nor a native
CalleeSources ==
  {"callNil0", "callNil1", "callNil2", "callBool0", "callBool1", "callBool2",
   "callNumber0", "callNumber1", "callNumber2", "callString0", "callString1",
   "callString2", "callFunction0", "callFunction1", "callFunction2",
   "callUpvalue0", "callUpvalue1", "callUpvalue2"}

\* the source texts of the programs that fill the frame stack
DeepSources == {"recurse", "deep", "climb", "arity", "syntaxError"}

\* compile(text): <<function>> for the compiled top-level function, <<>> for
\* the NULL of a compile error
compile(text) ==
  IF text \in DOMAIN Functions THEN <<text>> ELSE <<>>

-----------------------------------------------------------------------------
(* The operand stack.  vm.stack is a fixed array whose slots keep their    *)
(* last value when stackTop moves below them; the record holds the slots   *)
(* written so far, the rest of the array being the zero bytes of static    *)
(* storage, which no instruction of a compiled chunk reads.                *)

WriteSlot(stack, slot, x) ==
  IF slot < Len(stack) THEN [stack EXCEPT ![slot + 1] = x] ELSE Append(stack, x)

\* *vm.stackTop = value; vm.stackTop++.  There is no bound check: a push at
\* stackTop = STACK_MAX writes past the end of vm.stack (see ub).
push(v, x) ==
  IF v.stackTop < STACK_MAX
    THEN [v EXCEPT !.stack = WriteSlot(@, v.stackTop, x), !.stackTop = @ + 1]
    ELSE [v EXCEPT !.stackTop = @ + 1]

pop(v) == [v EXCEPT !.stackTop = @ - 1]

peek(v, distance) == v.stack[v.stackTop - distance]

\* resetStack that leaves the open-upvalue list as it is
resetStack_KeepUpvalues(v) == [v EXCEPT !.stackTop = 0, !.frameCount = 0]

resetStack(v) ==
  [v EXCEPT !.stackTop = 0, !.frameCount = 0, !.openUpvalues = NULL]

-----------------------------------------------------------------------------
(* Frames and chunks. *)

\* frame = &vm.frames[vm.frameCount - 1]
CurrentFrame(v) == v.frames[v.frameCount]

FunctionOf(v, closure) == Functions[v.objects[closure].function]

\* frame->closure->function->chunk
Chunk(v) == FunctionOf(v, CurrentFrame(v).closure)

\* the byte at frame->ip + k
Byte(v, k) == Chunk(v).code[CurrentFrame(v).ip + k + 1]

\* frame->ip += n, for the READ_BYTE()s of one instruction
Advance(v, n) == [v EXCEPT !.frames[v.frameCount].ip = @ + n]

READ_SHORT(v) == Byte(v, 1) * 256 + Byte(v, 2)

READ_CONSTANT(v) == Chunk(v).constants[Byte(v, 1) + 1]

-----------------------------------------------------------------------------
(* Runtime errors. *)

\* "[line %d] in %s()": the line table of a chunk is compiler data; the
\* offset of the instruction stands for its line
TraceLine(v, i) ==
  LET frame == v.frames[i + 1]
      function == FunctionOf(v, frame.closure)
      offset == frame.ip - 1
  IN "[line " \o ToString(offset) \o "] in " \o
     (IF function.name = "" THEN "script" ELSE function.name \o "()")

\* the message, the stack trace from the top frame down, then resetStack()
runtimeError(v, message) ==
  [vm |-> resetStack(v),
   lines |-> <<message>> \o
             [k \in 1..v.frameCount |-> TraceLine(v, v.frameCount - k)]]

-----------------------------------------------------------------------------
(* Calls. *)

\* the value a native computes: clockNative ignores its arguments and
\* returns the processor time, an input of the model
native(name, argCount, args, clock) == NUMBER_VAL(clock)

\* call that lets the frame stack grow one frame past FRAMES_MAX
call_OffByOne(v, closure, argCount) ==
  LET function == FunctionOf(v, closure) IN
  IF argCount # function.arity THEN
    LET err == runtimeError(v, "Expected " \o ToString(function.arity) \o
                               " arguments but got " \o ToString(argCount) \o ".")
    IN [ok |-> FALSE, vm |-> err.vm, lines |-> err.lines]
  ELSE IF v.frameCount > FRAMES_MAX THEN
    LET err == runtimeError(v, "Stack overflow.")
    IN [ok |-> FALSE, vm |-> err.vm, lines |-> err.lines]
  ELSE
    [ok |-> TRUE,
     vm |-> [v EXCEPT !.frames = WriteSlot(@, v.frameCount,
                                   [closure |-> closure, ip |-> 0,
                                    slots |-> v.stackTop - argCount - 1]),
                      !.frameCount = @ + 1],
     lines |-> <<>>]

\* call that checks the frame depth before the arity
call_DepthFirst(v, closure, argCount) ==
  LET function == FunctionOf(v, closure) IN
  IF v.frameCount = FRAMES_MAX THEN
    LET err == runtimeError(v, "Stack overflow.")
    IN [ok |-> FALSE, vm |-> err.vm, lines |-> err.lines]
  ELSE IF argCount # function.arity THEN
    LET err == runtimeError(v, "Expected " \o ToString(function.arity) \o
                               " arguments but got " \o ToString(argCount) \o ".")
    IN [ok |-> FALSE, vm |-> err.vm, lines |-> err.lines]
  ELSE
    [ok |-> TRUE,
     vm |-> [v EXCEPT !.frames = WriteSlot(@, v.frameCount,
                                   [closure |-> closure, ip |-> 0,
                                    slots |-> v.stackTop - argCount - 1]),
                      !.frameCount = @ + 1],
     lines |-> <<>>]

\* call that puts the base of the new frame at the first argument
call_SlotsAtFirstArg(v, closure, argCount) ==
  LET function == FunctionOf(v, closure) IN
  IF argCount # function.arity THEN
    LET err == runtimeError(v, "Expected " \o ToString(function.arity) \o
                               " arguments but got " \o ToString(argCount) \o ".")
    IN [ok |-> FALSE, vm |-> err.vm, lines |-> err.lines]
  ELSE IF v.frameCount = FRAMES_MAX THEN
    LET err == runtimeError(v, "Stack overflow.")
    IN [ok |-> FALSE, vm |-> err.vm, lines |-> err.lines]
  ELSE
    [ok |-> TRUE,
     vm |-> [v EXCEPT !.frames = WriteSlot(@, v.frameCount,
                                   [closure |-> closure, ip |-> 0,
                                    slots |-> v.stackTop - argCount]),
                      !.frameCount = @ + 1],
     lines |-> <<>>]

\* call that reports the overflow one frame early
call_LimitBelowMax(v, closure, argCount) ==
  LET function == FunctionOf(v, closure) IN
  IF argCount # function.arity THEN
    LET err == runtimeError(v, "Expected " \o ToString(function.arity) \o
                               " arguments but got " \o ToString(argCount) \o ".")
    IN [ok |-> FALSE, vm |-> err.vm, lines |-> err.lines]
  ELSE IF v.frameCount = FRAMES_MAX - 1 THEN
    LET err == runtimeError(v, "Stack overflow.")
    IN [ok |-> FALSE, vm |-> err.vm, lines |-> err.lines]
  ELSE
    [ok |-> TRUE,
     vm |-> [v EXCEPT !.frames = WriteSlot(@, v.frameCount,
                                   [closure |-> closure, ip |-> 0,
                                    slots |-> v.stackTop - argCount - 1]),
                      !.frameCount = @ + 1],
     lines |-> <<>>]

\* call(closure, argCount): [ok, vm, lines], lines being what a failed call
\* writes to stderr
call(v, closure, argCount) ==
  LET function == FunctionOf(v, closure) IN
  IF argCount # function.arity THEN
    LET err == runtimeError(v, "Expected " \o ToString(function.arity) \o
                               " arguments but got " \o ToString(argCount) \o ".")
    IN [ok |-> FALSE, vm |-> err.vm, lines |-> err.lines]
  ELSE IF v.frameCount = FRAMES_MAX THEN
    LET err == runtimeError(v, "Stack overflow.")
    IN [ok |-> FALSE, vm |-> err.vm, lines |-> err.lines]
  ELSE
    [ok |-> TRUE,
     vm |-> [v EXCEPT !.frames = WriteSlot(@, v.frameCount,
                                   [closure |-> closure, ip |-> 0,
                                    slots |-> v.stackTop - argCount - 1]),
                      !.frameCount = @ + 1],
     lines |-> <<>>]

\* callValue whose native branch leaves the callee on the stack
callValue_KeepCallee(v, callee, argCount, clock) ==
  IF IS_OBJ(callee) /\ callee.t = "closure" THEN
    call(v, callee.v, argCount)
  ELSE IF IS_OBJ(callee) /\ callee.t = "native" THEN
    LET args == [k \in 1..argCount |-> v.stack[v.stackTop - argCount + k]]
        res == native(callee.v, argCount, args, clock)
    IN [ok |-> TRUE,
        vm |-> push([v EXCEPT !.stackTop = @ - argCount], res),
        lines |-> <<>>]
  ELSE
    LET err == runtimeError(v, "Can only call functions and classes.")
    IN [ok |-> FALSE, vm |-> err.vm, lines |-> err.lines]

\* callValue that returns true for a value that cannot be called
callValue_NoError(v, callee, argCount, clock) ==
  IF IS_OBJ(callee) /\ callee.t = "closure" THEN
    call(v, callee.v, argCount)
  ELSE IF IS_OBJ(callee) /\ callee.t = "native" THEN
    LET args == [k \in 1..argCount |-> v.stack[v.stackTop - argCount + k]]
        res == native(callee.v, argCount, args, clock)
    IN [ok |-> TRUE,
        vm |-> push([v EXCEPT !.stackTop = @ - (argCount + 1)], res),
        lines |-> <<>>]
  ELSE
    [ok |-> TRUE, vm |-> v, lines |-> <<>>]

callValue(v, callee, argCount, clock) ==
  IF IS_OBJ(callee) /\ callee.t = "closure" THEN
    call(v, callee.v, argCount)
  ELSE IF IS_OBJ(callee) /\ callee.t = "native" THEN
    LET args == [k \in 1..argCount |-> v.stack[v.stackTop - argCount + k]]
        res == native(callee.v, argCount, args, clock)
    IN [ok |-> TRUE,
        vm |-> push([v EXCEPT !.stackTop = @ - (argCount + 1)], res),
        lines |-> <<>>]
  ELSE
    LET err == runtimeError(v, "Can only call functions and classes.")
    IN [ok |-> FALSE, vm |-> err.vm, lines |-> err.lines]

-----------------------------------------------------------------------------
(* Upvalues. *)

\* *location
Deref(v, location) ==
  IF location >= 0 THEN v.stack[location + 1] ELSE v.objects[-location].closed

\* *location = x
Store(v, location, x) ==
  IF location >= 0 THEN [v EXCEPT !.stack[location + 1] = x]
                   ELSE [v EXCEPT !.objects[-location].closed = x]

\* FindUpvalue with the comparison of the loop turned round
RECURSIVE FindUpvalue_Ascending(_, _, _, _)
FindUpvalue_Ascending(v, prevUpvalue, upvalue, local) ==
  IF upvalue # NULL /\ v.objects[upvalue].location < local
    THEN FindUpvalue_Ascending(v, upvalue, v.objects[upvalue].next, local)
    ELSE <<prevUpvalue, upvalue>>

\* the search loop of captureUpvalue: <<prevUpvalue, upvalue>> when it ends
RECURSIVE FindUpvalue(_, _, _, _)
FindUpvalue(v, prevUpvalue, upvalue, local) ==
  IF upvalue # NULL /\ v.objects[upvalue].location > local
    THEN FindUpvalue(v, upvalue, v.objects[upvalue].next, local)
    ELSE <<prevUpvalue, upvalue>>

\* captureUpvalue that makes a new upvalue even when the slot has one
captureUpvalue_NoReuse(v, local) ==
  LET found == FindUpvalue(v, NULL, v.openUpvalues, local)
      prevUpvalue == found[1]
      upvalue == found[2]
      createdUpvalue == Len(v.objects) + 1
      created == [newUpvalue(local) EXCEPT !.next = upvalue]
  IN IF prevUpvalue = NULL THEN
       [vm |-> [v EXCEPT !.objects = Append(@, created),
                         !.openUpvalues = createdUpvalue],
        upvalue |-> createdUpvalue]
     ELSE
       [vm |-> [v EXCEPT !.objects =
                  Append([@ EXCEPT ![prevUpvalue].next = createdUpvalue], created)],
        upvalue |-> createdUpvalue]

\* captureUpvalue that links every new upvalue at the head of the list
captureUpvalue_AtHead(v, local) ==
  LET found == FindUpvalue(v, NULL, v.openUpvalues, local)
      upvalue == found[2]
      createdUpvalue == Len(v.objects) + 1
      created == [newUpvalue(local) EXCEPT !.next = upvalue]
  IN IF upvalue # NULL /\ v.objects[upvalue].location = local THEN
       [vm |-> v, upvalue |-> upvalue]
     ELSE
       [vm |-> [v EXCEPT !.objects = Append(@, created),
                         !.openUpvalues = createdUpvalue],
        upvalue |-> createdUpvalue]

\* captureUpvalue(local): [vm, upvalue]
captureUpvalue(v, local) ==
  LET found == FindUpvalue(v, NULL, v.openUpvalues, local)
      prevUpvalue == found[1]
      upvalue == found[2]
      createdUpvalue == Len(v.objects) + 1
      created == [newUpvalue(local) EXCEPT !.next = upvalue]
  IN IF upvalue # NULL /\ v.objects[upvalue].location = local THEN
       [vm |-> v, upvalue |-> upvalue]
     ELSE IF prevUpvalue = NULL THEN
       [vm |-> [v EXCEPT !.objects = Append(@, created),
                         !.openUpvalues = createdUpvalue],
        upvalue |-> createdUpvalue]
     ELSE
       [vm |-> [v EXCEPT !.objects =
                  Append([@ EXCEPT ![prevUpvalue].next = createdUpvalue], created)],
        upvalue |-> createdUpvalue]

\* closeUpvalues that unlinks the upvalue but leaves location at the slot
RECURSIVE closeUpvalues_NoRepoint(_, _)
closeUpvalues_NoRepoint(v, last) ==
  IF v.openUpvalues # NULL /\ v.objects[v.openUpvalues].location >= last THEN
    LET upvalue == v.openUpvalues IN
    closeUpvalues_NoRepoint(
      [v EXCEPT !.objects[upvalue].closed = Deref(v, v.objects[upvalue].location),
                !.openUpvalues = v.objects[upvalue].next],
      last)
  ELSE v

\* closeUpvalues that repoints the upvalue without copying the slot
RECURSIVE closeUpvalues_NoCopy(_, _)
closeUpvalues_NoCopy(v, last) ==
  IF v.openUpvalues # NULL /\ v.objects[v.openUpvalues].location >= last THEN
    LET upvalue == v.openUpvalues IN
    closeUpvalues_NoCopy(
      [v EXCEPT !.objects[upvalue].location = -upvalue,
                !.openUpvalues = v.objects[upvalue].next],
      last)
  ELSE v

RECURSIVE closeUpvalues(_, _)
closeUpvalues(v, last) ==
  IF v.openUpvalues # NULL /\ v.objects[v.openUpvalues].location >= last THEN
    LET upvalue == v.openUpvalues IN
    closeUpvalues(
      [v EXCEPT !.objects[upvalue].closed = Deref(v, v.objects[upvalue].location),
                !.objects[upvalue].location = -upvalue,
                !.openUpvalues = v.objects[upvalue].next],
      last)
  ELSE v

\* the capture loop without its else branch: entries that come from the
\* enclosing closure are left empty
RECURSIVE CaptureAll_SkipEnclosing(_, _, _, _)
CaptureAll_SkipEnclosing(v, closure, i, upvalueCount) ==
  IF i >= upvalueCount THEN v
  ELSE
    LET isLocal == Byte(v, 2 + 2 * i)
        index == Byte(v, 3 + 2 * i)
        frame == CurrentFrame(v)
    IN IF isLocal # 0 THEN
         LET cap == captureUpvalue(v, frame.slots + index) IN
         CaptureAll_SkipEnclosing(
           [cap.vm EXCEPT !.objects[closure].upvalues[i + 1] = cap.upvalue],
           closure, i + 1, upvalueCount)
       ELSE
         CaptureAll_SkipEnclosing(v, closure, i + 1, upvalueCount)

\* the capture loop of OP_CLOSURE from entry i on; closure is the new object
RECURSIVE CaptureAll(_, _, _, _)
CaptureAll(v, closure, i, upvalueCount) ==
  IF i >= upvalueCount THEN v
  ELSE
    LET isLocal == Byte(v, 2 + 2 * i)
        index == Byte(v, 3 + 2 * i)
        frame == CurrentFrame(v)
    IN IF isLocal # 0 THEN
         LET cap == captureUpvalue(v, frame.slots + index) IN
         CaptureAll([cap.vm EXCEPT !.objects[closure].upvalues[i + 1] = cap.upvalue],
                    closure, i + 1, upvalueCount)
       ELSE
         CaptureAll([v EXCEPT !.objects[closure].upvalues[i + 1] =
                                 v.objects[frame.closure].upvalues[index + 1]],
                    closure, i + 1, upvalueCount)

concatenate(v) ==
  LET b == peek(v, 0)
      a == peek(v, 1)
  IN push(pop(pop(v)), STRING_VAL(a.v \o b.v))

-----------------------------------------------------------------------------
(* The globals table: a function from the names that are defined. *)

EmptyTable == [k \in {} |-> NIL_VAL]

tableGet(table, key) == key \in DOMAIN table

\* tableSet returns whether the key is new
tableSet(table, key, value) ==
  [k \in DOMAIN table \cup {key} |-> IF k = key THEN value ELSE table[k]]

tableDelete(table, key) == [k \in DOMAIN table \ {key} |-> table[k]]

-----------------------------------------------------------------------------
(* initVM() *)

defineNative(v, name, function) ==
  LET v1 == push(push(v, STRING_VAL(name)), NATIVE_VAL(function))
      v2 == [v1 EXCEPT !.globals = tableSet(@, v1.stack[1].v, v1.stack[2])]
  IN pop(pop(v2))

initVM ==
  defineNative(
    resetStack([stack |-> <<>>, stackTop |-> 0, frames |-> <<>>, frameCount |-> 0,
                globals |-> EmptyTable, openUpvalues |-> NULL, objects |-> <<>>]),
    "clock", "clockNative")

Init ==
  /\ vm = initVM
  /\ result = "NONE"
  /\ instruction = ""
  /\ history = <<>>
  /\ stdout = <<>>
  /\ stderr = <<>>
  /\ ub = FALSE
  /\ gen = <<>>
  /\ ident = <<>>
  /\ retired = {}
  /\ written = <<>>

-----------------------------------------------------------------------------
(* interpret(source) up to the entry of run() *)

Interpret(src) ==
  /\ result # "RUNNING"
  /\ ~ub
  /\ runs < MaxRuns
  /\ history' = Append(history, src)
  /\ instruction' = ""
  /\ stdout' = <<>>
  /\ stderr' = <<>>
  /\ LET function == compile(src) IN
     IF function = <<>> THEN
       /\ result' = "INTERPRET_COMPILE_ERROR"
       /\ UNCHANGED <<vm, ub>>
     ELSE
       LET v1 == push(vm, FUNCTION_VAL(function[1]))
           closure == Len(v1.objects) + 1
           v2 == [v1 EXCEPT !.objects =
                    Append(@, newClosure(function[1],
                                         Functions[function[1]].upvalueCount))]
           v3 == push(pop(v2), CLOSURE_VAL(closure))
           c == call(v3, closure, 0)
       IN /\ vm' = c.vm
          /\ result' = "RUNNING"
          \* the result of call() is not looked at: run() starts anyway
          /\ ub' = (~c.ok \/ c.vm.stackTop > STACK_MAX)

-----------------------------------------------------------------------------
(* run(): one action per opcode *)

\* instruction = READ_BYTE() and the switch on it
Dispatch(op) ==
  /\ result = "RUNNING"
  /\ ~ub
  /\ Byte(vm, 0) = op
  /\ instruction' = op

\* break: the loop goes on with the VM as the instruction left it
Continue(v) ==
  /\ vm' = v
  /\ ub' = (v.stackTop > STACK_MAX)
  /\ UNCHANGED <<result, history, stdout, stderr>>

\* runtimeError(...) followed by return res
Fail(err, res) ==
  /\ vm' = err.vm
  /\ stderr' = stderr \o err.lines
  /\ result' = res
  /\ UNCHANGED <<history, stdout, ub>>

OpConstant ==
  /\ Dispatch("OP_CONSTANT")
  /\ Continue(push(Advance(vm, 2), READ_CONSTANT(vm)))

OpNil == Dispatch("OP_NIL") /\ Continue(push(Advance(vm, 1), NIL_VAL))

OpTrue == Dispatch("OP_TRUE") /\ Continue(push(Advance(vm, 1), BOOL_VAL(TRUE)))

OpFalse == Dispatch("OP_FALSE") /\ Continue(push(Advance(vm, 1), BOOL_VAL(FALSE)))

OpPop == Dispatch("OP_POP") /\ Continue(pop(Advance(vm, 1)))

OpGetLocal ==
  /\ Dispatch("OP_GET_LOCAL")
  /\ LET slot == Byte(vm, 1) IN
     Continue(push(Advance(vm, 2), vm.stack[CurrentFrame(vm).slots + slot + 1]))

OpSetLocal ==
  /\ Dispatch("OP_SET_LOCAL")
  /\ LET slot == Byte(vm, 1) IN
     Continue([Advance(vm, 2) EXCEPT
                 !.stack[CurrentFrame(vm).slots + slot + 1] = peek(vm, 0)])

OpGetGlobal ==
  /\ Dispatch("OP_GET_GLOBAL")
  /\ LET name == READ_CONSTANT(vm).v
         v == Advance(vm, 2)
     IN IF ~tableGet(vm.globals, name)
          THEN Fail(runtimeError(v, "Undefined variable '" \o name \o "'."),
                    "INTERPRET_RUNTIME_ERROR")
          ELSE Continue(push(v, vm.globals[name]))

OpDefineGlobal ==
  /\ Dispatch("OP_DEFINE_GLOBAL")
  /\ LET name == READ_CONSTANT(vm).v
         v == Advance(vm, 2)
     IN Continue(pop([v EXCEPT !.globals = tableSet(@, name, peek(vm, 0))]))

\* OP_SET_GLOBAL that leaves the entry tableSet made for an undefined name
OpSetGlobal_NoDelete ==
  /\ Dispatch("OP_SET_GLOBAL")
  /\ LET name == READ_CONSTANT(vm).v
         v == Advance(vm, 2)
         isNewKey == ~tableGet(vm.globals, name)
         set == [v EXCEPT !.globals = tableSet(@, name, peek(vm, 0))]
     IN IF isNewKey
          THEN Fail(runtimeError(set, "Undefined variable '" \o name \o "'."),
                    "INTERPRET_RUNTIME_ERROR")
          ELSE Continue(set)

OpSetGlobal ==
  /\ Dispatch("OP_SET_GLOBAL")
  /\ LET name == READ_CONSTANT(vm).v
         v == Advance(vm, 2)
         isNewKey == ~tableGet(vm.globals, name)
         set == [v EXCEPT !.globals = tableSet(@, name, peek(vm, 0))]
     IN IF isNewKey
          THEN Fail(runtimeError([set EXCEPT !.globals = tableDelete(@, name)],
                                 "Undefined variable '" \o name \o "'."),
                    "INTERPRET_RUNTIME_ERROR")
          ELSE Continue(set)

OpGetUpvalue ==
  /\ Dispatch("OP_GET_UPVALUE")
  /\ LET slot == Byte(vm, 1)
         upvalue == vm.objects[CurrentFrame(vm).closure].upvalues[slot + 1]
     IN Continue(push(Advance(vm, 2), Deref(vm, vm.objects[upvalue].location)))

OpSetUpvalue ==
  /\ Dispatch("OP_SET_UPVALUE")
  /\ LET slot == Byte(vm, 1)
         upvalue == vm.objects[CurrentFrame(vm).closure].upvalues[slot + 1]
     IN Continue(Store(Advance(vm, 2), vm.objects[upvalue].location, peek(vm, 0)))

OpEqual ==
  /\ Dispatch("OP_EQUAL")
  /\ LET b == peek(vm, 0)
         a == peek(vm, 1)
     IN Continue(push(pop(pop(Advance(vm, 1))), BOOL_VAL(valuesEqual(a, b))))

\* the quotient of two doubles; the chunks divide only where it is a whole
\* number
Quotient(a, b) == a \div b

\* a op b, for the operator tokens the macro is used with
ApplyOp(op, a, b) ==
  CASE op = ">" -> a > b
    [] op = "<" -> a < b
    [] op = "-" -> a - b
    [] op = "*" -> a * b
    [] op = "/" -> Quotient(a, b)

\* valueType(x), for the value macros the macro is used with
Wrap(valueType, x) ==
  IF valueType = "BOOL_VAL" THEN BOOL_VAL(x) ELSE NUMBER_VAL(x)

BINARY_OP(valueType, op) ==
  LET v == Advance(vm, 1) IN
  IF ~IS_NUMBER(peek(v, 0)) \/ ~IS_NUMBER(peek(v, 1))
    THEN Fail(runtimeError(v, "Operands must be numbers."),
              "INTERPRET_RUNTIME_ERROR")
    ELSE LET b == peek(v, 0).v
             a == peek(v, 1).v
         IN Continue(push(pop(pop(v)), Wrap(valueType, ApplyOp(op, a, b))))

OpGreater ==
  Dispatch("OP_GREATER") /\ BINARY_OP("BOOL_VAL", ">")

OpLess == Dispatch("OP_LESS") /\ BINARY_OP("BOOL_VAL", "<")

OpAdd ==
  /\ Dispatch("OP_ADD")
  /\ LET v == Advance(vm, 1) IN
     IF IS_STRING(peek(v, 0)) /\ IS_STRING(peek(v, 1)) THEN
       Continue(concatenate(v))
     ELSE IF IS_NUMBER(peek(v, 0)) /\ IS_NUMBER(peek(v, 1)) THEN
       LET b == peek(v, 0).v
           a == peek(v, 1).v
       IN Continue(push(pop(pop(v)), NUMBER_VAL(a + b)))
     ELSE
       Fail(runtimeError(v, "Operands must be two numbers or two strings."),
            "INTERPRET_COMPILE_ERROR")

OpSubtract ==
  Dispatch("OP_SUBTRACT") /\ BINARY_OP("NUMBER_VAL", "-")

OpMultiply ==
  Dispatch("OP_MULTIPLY") /\ BINARY_OP("NUMBER_VAL", "*")

OpDivide == Dispatch("OP_DIVIDE") /\ BINARY_OP("NUMBER_VAL", "/")

OpNot ==
  /\ Dispatch("OP_NOT")
  /\ Continue(push(pop(Advance(vm, 1)), BOOL_VAL(isFalsey(peek(vm, 0)))))

OpNegate ==
  /\ Dispatch("OP_NEGATE")
  /\ LET v == Advance(vm, 1) IN
     IF ~IS_NUMBER(peek(v, 0))
       THEN Fail(runtimeError(v, "Operand must be a number."),
                 "INTERPRET_RUNTIME_ERROR")
       ELSE Continue(push(pop(v), NUMBER_VAL(-peek(v, 0).v)))

OpPrint ==
  /\ Dispatch("OP_PRINT")
  /\ vm' = pop(Advance(vm, 1))
  /\ stdout' = Append(stdout, peek(vm, 0))
  /\ UNCHANGED <<result, history, stderr, ub>>

OpJump ==
  /\ Dispatch("OP_JUMP")
  /\ Continue(Advance(vm, 3 + READ_SHORT(vm)))

OpJumpIfFalse ==
  /\ Dispatch("OP_JUMP_IF_FALSE")
  /\ Continue(Advance(vm, 3 + (IF isFalsey(peek(vm, 0)) THEN READ_SHORT(vm) ELSE 0)))

OpLoop ==
  /\ Dispatch("OP_LOOP")
  /\ Continue(Advance(vm, 3 - READ_SHORT(vm)))

OpCall ==
  /\ Dispatch("OP_CALL")
  /\ \E clock \in 0..MaxClock :
       LET argCount == Byte(vm, 1)
           v == Advance(vm, 2)
           c == callValue(v, peek(v, argCount), argCount, clock)
       IN IF ~c.ok
            THEN Fail([vm |-> c.vm, lines |-> c.lines], "INTERPRET_RUNTIME_ERROR")
            ELSE Continue(c.vm)

OpClosure ==
  /\ Dispatch("OP_CLOSURE")
  /\ LET function == READ_CONSTANT(vm).v
         upvalueCount == Functions[function].upvalueCount
         closure == Len(vm.objects) + 1
         v1 == [vm EXCEPT !.objects = Append(@, newClosure(function, upvalueCount))]
         v2 == CaptureAll(push(v1, CLOSURE_VAL(closure)), closure, 0, upvalueCount)
     IN Continue(Advance(v2, 2 + 2 * upvalueCount))

\* OP_CLOSE_UPVALUE that pops the local without closing its upvalue, as
\* OP_POP does
OpCloseUpvalue_PopOnly ==
  /\ Dispatch("OP_CLOSE_UPVALUE")
  /\ Continue(pop(Advance(vm, 1)))

OpCloseUpvalue ==
  /\ Dispatch("OP_CLOSE_UPVALUE")
  /\ LET v == Advance(vm, 1) IN
     Continue(pop(closeUpvalues(v, v.stackTop - 1)))

\* OP_RETURN that does not close the upvalues of the frame it drops
OpReturn_NoClose ==
  /\ Dispatch("OP_RETURN")
  /\ LET res == peek(vm, 0)
         frame == CurrentFrame(vm)
         v1 == pop(Advance(vm, 1))
         v2 == [v1 EXCEPT !.frameCount = @ - 1]
     IN IF v2.frameCount = 0 THEN
          /\ vm' = pop(v2)
          /\ result' = "INTERPRET_OK"
          /\ UNCHANGED <<history, stdout, stderr, ub>>
        ELSE
          Continue(push([v2 EXCEPT !.stackTop = frame.slots], res))

\* OP_RETURN that leaves the script closure on the stack when the outermost
\* frame returns
OpReturn_NoFinalPop ==
  /\ Dispatch("OP_RETURN")
  /\ LET res == peek(vm, 0)
         frame == CurrentFrame(vm)
         v1 == closeUpvalues(pop(Advance(vm, 1)), frame.slots)
         v2 == [v1 EXCEPT !.frameCount = @ - 1]
     IN IF v2.frameCount = 0 THEN
          /\ vm' = v2
          /\ result' = "INTERPRET_OK"
          /\ UNCHANGED <<history, stdout, stderr, ub>>
        ELSE
          Continue(push([v2 EXCEPT !.stackTop = frame.slots], res))

OpReturn ==
  /\ Dispatch("OP_RETURN")
  /\ LET res == peek(vm, 0)
         frame == CurrentFrame(vm)
         v1 == closeUpvalues(pop(Advance(vm, 1)), frame.slots)
         v2 == [v1 EXCEPT !.frameCount = @ - 1]
     IN IF v2.frameCount = 0 THEN
          /\ vm' = pop(v2)
          /\ result' = "INTERPRET_OK"
          /\ UNCHANGED <<history, stdout, stderr, ub>>
        ELSE
          Continue(push([v2 EXCEPT !.stackTop = frame.slots], res))

Run ==
  \/ OpConstant \/ OpNil \/ OpTrue \/ OpFalse \/ OpPop
  \/ OpGetLocal \/ OpSetLocal
  \/ OpGetGlobal \/ OpDefineGlobal \/ OpSetGlobal
  \/ OpGetUpvalue \/ OpSetUpvalue
  \/ OpEqual \/ OpGreater \/ OpLess
  \/ OpAdd \/ OpSubtract \/ OpMultiply \/ OpDivide \/ OpNot \/ OpNegate
  \/ OpPrint \/ OpJump \/ OpJumpIfFalse \/ OpLoop
  \/ OpCall \/ OpClosure \/ OpCloseUpvalue \/ OpReturn

-----------------------------------------------------------------------------
(* The history variables.  A local variable lives in one stack slot from   *)
(* the push that creates it to the instruction that vacates the slot;      *)
(* <<slot, gen[slot]>> names it.                                           *)

Gen(s) == IF s \in DOMAIN gen THEN gen[s] ELSE 0

Min(a, b) == IF a < b THEN a ELSE b

\* the opcodes that pop their operands and push a result in their place
PopThenPush ==
  {"OP_EQUAL", "OP_GREATER", "OP_LESS", "OP_ADD", "OP_SUBTRACT", "OP_MULTIPLY",
   "OP_DIVIDE", "OP_NOT", "OP_NEGATE", "OP_RETURN"}

\* the lowest stack slot the step vacated
Low ==
  IF result # "RUNNING" THEN vm.stackTop
  ELSE IF result' # "RUNNING" THEN 0
  ELSE IF instruction' \in PopThenPush THEN vm'.stackTop - 1
  ELSE IF instruction' = "OP_CALL" /\ vm'.frameCount = vm.frameCount
    THEN vm'.stackTop - 1
  ELSE Min(vm.stackTop, vm'.stackTop)

Vacated == Low..(vm.stackTop - 1)

Captured ==
  UNION {{ident[c][i] : i \in 1..Len(ident[c])} : c \in DOMAIN ident}

\* the variables the upvalue entries of the closure made by this OP_CLOSURE
\* capture
NewIdents ==
  LET frame == CurrentFrame(vm)
      n == Functions[READ_CONSTANT(vm).v].upvalueCount
  IN [i \in 1..n |->
        IF Byte(vm, 2 * i) # 0
          THEN <<frame.slots + Byte(vm, 2 * i + 1),
                 Gen(frame.slots + Byte(vm, 2 * i + 1))>>
          ELSE ident[frame.closure][Byte(vm, 2 * i + 1) + 1]]

Ghost ==
  /\ gen' = [s \in DOMAIN gen \cup Vacated |->
               Gen(s) + (IF s \in Vacated THEN 1 ELSE 0)]
  /\ ident' = [c \in 1..Len(vm'.objects) |->
                 IF c <= Len(ident) THEN ident[c]
                 ELSE IF result = "RUNNING" /\ instruction' = "OP_CLOSURE"
                         /\ c = Len(vm.objects) + 1
                   THEN NewIdents
                 ELSE <<>>]
  /\ retired' = IF result = "RUNNING" /\ result' \notin {"RUNNING", "INTERPRET_OK"}
                  THEN retired
                  ELSE retired \cup ({<<s, Gen(s)>> : s \in Vacated} \cap Captured)
  /\ written' =
       IF result = "RUNNING" /\ instruction' = "OP_SET_UPVALUE" THEN
         LET id == ident[CurrentFrame(vm).closure][Byte(vm, 1) + 1] IN
         IF id \in retired
           THEN [x \in DOMAIN written \cup {id} |->
                   IF x = id THEN [value |-> peek(vm, 0),
                                   by |-> CurrentFrame(vm).closure]
                             ELSE written[x]]
           ELSE written
       ELSE written

-----------------------------------------------------------------------------
(* The specifications. *)

Next == ((\E src \in Sources : Interpret(src)) \/ Run) /\ Ghost

Spec == Init /\ [][Next]_vars

\* the programs that reach FRAMES_MAX frames, and the opcodes they execute
NextDeep ==
  /\ \/ \E src \in DeepSources : Interpret(src)
     \/ OpConstant \/ OpNil \/ OpPop \/ OpGetLocal \/ OpGetGlobal \/ OpDefineGlobal
     \/ OpLess \/ OpAdd \/ OpJump \/ OpJumpIfFalse \/ OpCall \/ OpClosure \/ OpReturn
  /\ Ghost

SpecDeep == Init /\ [][NextDeep]_vars

\* run() does not suspend or yield: once interpret() has entered it, the
\* dispatch loop goes on until it returns.  The host is free never to call
\* interpret() again.
SpecDeepFair == SpecDeep /\ WF_vars(result = "RUNNING" /\ NextDeep)

\* the chunks that call what cannot be called, and the opcodes they execute
NextCallees ==
  /\ \/ \E src \in CalleeSources : Interpret(src)
     \/ OpConstant \/ OpNil \/ OpCall
  /\ Ghost

SpecCallees == Init /\ [][NextCallees]_vars

\* the one program whose pushes reach the end of vm.stack
NextPushes == (Interpret("pushes") \/ OpNil) /\ Ghost

SpecPushes == Init /\ [][NextPushes]_vars

\* interpret() of that program on a fresh VM, k of its OP_NILs executed
PushesAfter(k) ==
  [stack |-> [s \in 1..(k + 1) |-> IF s = 1 THEN CLOSURE_VAL(1) ELSE NIL_VAL],
   stackTop |-> k + 1,
   frames |-> <<[closure |-> 1, ip |-> k, slots |-> 0]>>,
   frameCount |-> 1,
   globals |-> initVM.globals,
   openUpvalues |-> NULL,
   objects |-> <<newClosure("pushes", 0)>>]

\* the same run, taken up where at most MaxFree slots of vm.stack are free
InitNearFull ==
  /\ \E free \in 0..MaxFree : vm = PushesAfter(STACK_MAX - free - 1)
  /\ result = "RUNNING"
  /\ instruction = "OP_NIL"
  /\ history = <<"pushes">>
  /\ stdout = <<>>
  /\ stderr = <<>>
  /\ ub = FALSE
  /\ gen = <<>>
  /\ ident = << <<>> >>
  /\ retired = {}
  /\ written = <<>>

NextNearFull == OpNil /\ Ghost

SpecNearFull == InitNearFull /\ [][NextNearFull]_vars

\* SpecPushes reaches the states SpecNearFull starts from, and no others
\* with that few free slots
NearFullIsReached ==
  (result = "RUNNING" /\ ~ub /\ vm.stackTop >= STACK_MAX - MaxFree) =>
    /\ vm = PushesAfter(vm.stackTop - 1)
    /\ <<instruction, history, stdout, stderr>> = <<"OP_NIL", <<"pushes">>, <<>>, <<>>>>
    /\ <<gen, ident, retired, written>> = <<<<>>, << <<>> >>, {}, <<>>>>

-----------------------------------------------------------------------------
(* The open-upvalue list, from vm.openUpvalues along the next pointers. *)

RECURSIVE ListFrom(_, _, _)
ListFrom(v, upvalue, fuel) ==
  IF upvalue = NULL \/ fuel = 0 THEN <<>>
  ELSE <<upvalue>> \o ListFrom(v, v.objects[upvalue].next, fuel - 1)

OpenList(v) == ListFrom(v, v.openUpvalues, Len(v.objects) + 1)

Location(v, upvalue) == v.objects[upvalue].location

IsClosure(v, c) == v.objects[c].type = "closure"

IsUpvalue(v, u) == v.objects[u].type = "upvalue"

\* interpret() has returned after reporting a runtime error
ErrorReported == result \notin {"NONE", "RUNNING"} /\ stderr # <<>>

-----------------------------------------------------------------------------
(* C1: in every reachable state the entries of the open-upvalue list point  *)
(* into the stack at strictly descending locations, so no two of them       *)
(* point to the same slot.                                                  *)
C1_OpenUpvaluesStrictlyDescending ==
  LET list == OpenList(vm) IN
  /\ \A k \in 1..Len(list) : Location(vm, list[k]) >= 0
  /\ \A k \in 1..(Len(list) - 1) :
       Location(vm, list[k]) > Location(vm, list[k + 1])

\* three open upvalues, the last of them captured between the other two
C1_Witness ==
  LET list == OpenList(vm) IN
  /\ instruction = "OP_CLOSURE"
  /\ Len(list) >= 3
  /\ list[2] > list[1] /\ list[2] > list[3]

(* C3: whenever the dispatch loop has reported a runtime error, interpret() *)
(* returns INTERPRET_RUNTIME_ERROR.                                         *)
C3_ErrorsReturnRuntimeError ==
  ErrorReported => result = "INTERPRET_RUNTIME_ERROR"

(* C4: when a runtime error has been reported the operand stack is empty,   *)
(* there is no frame and the open-upvalue list is empty.                    *)
C4_ErrorResetsStacks ==
  ErrorReported =>
    /\ vm.stackTop = 0
    /\ vm.frameCount = 0
    /\ vm.openUpvalues = NULL

\* an error reported two calls deep while an upvalue was open
C4_Witness ==
  /\ ErrorReported
  /\ Len(stderr) >= 3
  /\ \E u \in 1..Len(vm.objects) : IsUpvalue(vm, u) /\ Location(vm, u) >= 0

(* C2: once the slot of a captured variable has been vacated by a scope   *)
(* end or a return, the value last assigned to the variable through any     *)
(* closure is what every upvalue entry that captured that variable reads,   *)
(* in every later state; the counter program prints 1, 2, 3.                *)
C2_SharedCell ==
  /\ \A c \in 1..Len(vm.objects) :
       IsClosure(vm, c) =>
         \A i \in 1..Len(ident[c]) :
           ident[c][i] \in DOMAIN written =>
             Deref(vm, Location(vm, vm.objects[c].upvalues[i]))
               = written[ident[c][i]].value
  /\ (result = "INTERPRET_OK" /\ source = "counter") =>
       stdout = <<NUMBER_VAL(1), NUMBER_VAL(2), NUMBER_VAL(3)>>

\* OP_GET_UPVALUE through one closure has just read what another closure
\* assigned after the variable's function had returned
C2_Witness ==
  /\ result = "RUNNING"
  /\ instruction = "OP_GET_UPVALUE"
  /\ LET frame == CurrentFrame(vm)
         slot == Chunk(vm).code[frame.ip]
         id == ident[frame.closure][slot + 1]
     IN /\ id \in DOMAIN written
        /\ written[id].by # frame.closure
        /\ peek(vm, 0) = written[id].value

-----------------------------------------------------------------------------
(* Calls, as steps. *)

\* the next instruction is OP_CALL and the value called is a closure
CallOnClosure ==
  /\ result = "RUNNING"
  /\ ~ub
  /\ Byte(vm, 0) = "OP_CALL"
  /\ peek(vm, Byte(vm, 1)).t = "closure"

CalleeArity == FunctionOf(vm, peek(vm, Byte(vm, 1)).v).arity

ArityMessage ==
  "Expected " \o ToString(CalleeArity) \o " arguments but got " \o
  ToString(Byte(vm, 1)) \o "."

\* the step ends the run with this runtime error and pushes no frame
FailsWith(message) ==
  /\ result' = "INTERPRET_RUNTIME_ERROR"
  /\ stderr'[1] = message
  /\ vm'.frameCount = 0
  /\ vm'.frames = Advance(vm, 2).frames

(* C5, as claimed: the frame count never exceeds 64, and every call on a   *)
(* closure attempted with 64 frames active pushes no frame and is reported  *)
(* as "Stack overflow.".                                                    *)
C5_AnyCallAtMaxOverflows ==
  [][/\ vm'.frameCount <= FRAMES_MAX
     /\ (CallOnClosure /\ vm.frameCount = FRAMES_MAX) =>
          FailsWith("Stack overflow.")]_vars

(* C5, amended: the frame count never exceeds 64; a call on a closure       *)
(* attempted with 64 frames active pushes no frame, and is reported as      *)
(* "Stack overflow." when argc equals the arity and as the arity mismatch   *)
(* when it does not.                                                        *)
C5_CallAtMaxFails ==
  [][/\ vm'.frameCount <= FRAMES_MAX
     /\ (CallOnClosure /\ vm.frameCount = FRAMES_MAX) =>
          IF Byte(vm, 1) = CalleeArity
            THEN FailsWith("Stack overflow.")
            ELSE FailsWith(ArityMessage)]_vars

\* "Stack overflow." reported with 64 frames in the stack trace
C5_Witness ==
  /\ ErrorReported
  /\ stderr[1] = "Stack overflow."
  /\ Len(stderr) = FRAMES_MAX + 1

(* C6: no push moves stackTop past the end of vm.stack or writes outside    *)
(* the stack.                                                               *)
C6_PushStaysInsideStack == ~ub /\ vm.stackTop <= STACK_MAX

(* C7: a call on a closure with argc different from the arity is the arity  *)
(* runtime error, whatever the frame depth, and pushes no frame; with argc  *)
(* equal to the arity and fewer than 64 frames it pushes exactly one frame, *)
(* for the callee, with ip at the start of its code and slots at            *)
(* stackTop - argc - 1.                                                     *)
C7_CallOnClosure ==
  [][CallOnClosure =>
       IF Byte(vm, 1) # CalleeArity THEN
         FailsWith(ArityMessage)
       ELSE IF vm.frameCount < FRAMES_MAX THEN
         /\ result' = "RUNNING"
         /\ vm'.frameCount = vm.frameCount + 1
         /\ CurrentFrame(vm') = [closure |-> peek(vm, Byte(vm, 1)).v, ip |-> 0,
                                 slots |-> vm.stackTop - Byte(vm, 1) - 1]
         /\ \A k \in 1..vm.frameCount : vm'.frames[k] = Advance(vm, 2).frames[k]
         /\ vm'.stackTop = vm.stackTop
       ELSE TRUE]_vars

\* the arity mismatch reported for a call made with 64 frames active
C7_Witness ==
  /\ ErrorReported
  /\ stderr[1] = "Expected 1 arguments but got 0."
  /\ Len(stderr) = FRAMES_MAX + 1

(* C8: OP_SET_GLOBAL on a name that is not defined is a runtime error and   *)
(* leaves the globals table as it was; the name is still undefined for a    *)
(* later interpret() call that reads it.                                    *)
C8_SetUndefinedGlobal ==
  [][/\ (/\ result = "RUNNING"
         /\ Byte(vm, 0) = "OP_SET_GLOBAL"
         /\ READ_CONSTANT(vm).v \notin DOMAIN vm.globals) =>
          /\ result' = "INTERPRET_RUNTIME_ERROR"
          /\ stderr'[1] = "Undefined variable '" \o READ_CONSTANT(vm).v \o "'."
          /\ vm'.globals = vm.globals
     /\ (source' = "undefGet" /\ result' \notin {"NONE", "RUNNING"}) =>
          /\ result' = "INTERPRET_RUNTIME_ERROR"
          /\ stderr'[1] = "Undefined variable 'undefined'."]_vars

\* the read of the name fails in the interpret() call after the failed
\* assignment
C8_Witness ==
  /\ history = <<"undefSet", "undefGet">>
  /\ ErrorReported
  /\ "undefined" \notin DOMAIN vm.globals

(* C9: OP_RETURN from a frame that is not the outermost closes exactly the  *)
(* open upvalues at or above the frame's slots, each with the value of its  *)
(* slot, drops one frame, leaves the stack at height slots + 1 with the     *)
(* returned value on top and the slots below the base unchanged, and goes   *)
(* on in the caller right after its OP_CALL; from the outermost frame it    *)
(* pops the result and the script closure and returns INTERPRET_OK.         *)
C9_Return ==
  [][(result = "RUNNING" /\ ~ub /\ Byte(vm, 0) = "OP_RETURN") =>
       LET frame == CurrentFrame(vm)
           res == peek(vm, 0)
           open == OpenList(vm)
           Below(u) == Location(vm, u) < frame.slots
       IN IF vm.frameCount > 1 THEN
            /\ \A k \in 1..Len(open) :
                 ~Below(open[k]) =>
                   /\ Location(vm', open[k]) = -open[k]
                   /\ vm'.objects[open[k]].closed = vm.stack[Location(vm, open[k]) + 1]
            /\ OpenList(vm') = SelectSeq(open, Below)
            /\ \A k \in 1..Len(open) :
                 Below(open[k]) => Location(vm', open[k]) = Location(vm, open[k])
            /\ vm'.frameCount = vm.frameCount - 1
            /\ vm'.stackTop = frame.slots + 1
            /\ peek(vm', 0) = res
            /\ \A s \in 1..frame.slots : vm'.stack[s] = vm.stack[s]
            /\ CurrentFrame(vm') = vm.frames[vm.frameCount - 1]
            /\ Chunk(vm').code[CurrentFrame(vm').ip - 1] = "OP_CALL"
            /\ result' = "RUNNING"
          ELSE
            /\ result' = "INTERPRET_OK"
            /\ vm'.frameCount = 0
            /\ vm'.stackTop = vm.stackTop - 2]_vars

\* a return has just handed the caller a closure whose upvalue it closed
C9_Witness ==
  /\ result = "RUNNING"
  /\ instruction = "OP_RETURN"
  /\ peek(vm, 0).t = "closure"
  /\ LET upvalues == vm.objects[peek(vm, 0).v].upvalues IN
     /\ Len(upvalues) >= 1
     /\ Location(vm, upvalues[1]) = -upvalues[1]
     /\ vm.objects[upvalues[1]].closed # NIL_VAL

(* C10: a call on a native pushes no frame and stays in the current frame,  *)
(* right after the OP_CALL; the callee and its argc arguments are replaced  *)
(* by the one result and every slot below the callee is unchanged.          *)
C10_NativeCall ==
  [][(/\ result = "RUNNING"
      /\ ~ub
      /\ Byte(vm, 0) = "OP_CALL"
      /\ peek(vm, Byte(vm, 1)).t = "native") =>
       LET argCount == Byte(vm, 1) IN
       /\ result' = "RUNNING"
       /\ vm'.frameCount = vm.frameCount
       /\ vm'.frames = Advance(vm, 2).frames
       /\ vm'.stackTop = vm.stackTop - argCount
       /\ IS_NUMBER(peek(vm', 0))
       /\ \A s \in 1..(vm.stackTop - argCount - 1) : vm'.stack[s] = vm.stack[s]]_vars

\* clock(a, 2) has returned: its result lies on the local below the callee
C10_Witness ==
  /\ result = "RUNNING"
  /\ instruction = "OP_CALL"
  /\ source = "native"
  /\ vm.frameCount = 1
  /\ vm.stackTop = 3
  /\ IS_NUMBER(peek(vm, 0))
  /\ vm.stack[2] = NUMBER_VAL(7)

-----------------------------------------------------------------------------
(* Upvalues, as steps. *)

InList(v, u) == \E k \in 1..Len(OpenList(v)) : OpenList(v)[k] = u

IsClosed(v, u) == Location(v, u) < 0

\* the stack slot is not part of the stack the step leaves: it is at or
\* above the new stackTop, or it is the slot OP_RETURN puts the result in
SlotGone(s) ==
  \/ s >= vm'.stackTop
  \/ Byte(vm, 0) = "OP_RETURN" /\ s = vm'.stackTop - 1

-----------------------------------------------------------------------------
(* Frames. *)

(* C12: the slots bases of the active frames are strictly increasing with   *)
(* the frame index and each lies below stackTop; when a frame is pushed,    *)
(* slot 0 of its window holds the closure the frame executes and slots      *)
(* 1..arity hold the arguments of the call, in the order they were pushed.  *)
C12_FrameWindows ==
  [][/\ \A k \in 1..vm'.frameCount :
          /\ vm'.frames[k].slots >= 0
          /\ vm'.frames[k].slots < vm'.stackTop
          /\ k > 1 => vm'.frames[k - 1].slots < vm'.frames[k].slots
     /\ vm'.frameCount = vm.frameCount + 1 =>
          LET frame == CurrentFrame(vm')
              arity == FunctionOf(vm', frame.closure).arity
          IN /\ vm'.stack[frame.slots + 1] = CLOSURE_VAL(frame.closure)
             /\ \A i \in 1..arity :
                  vm'.stack[frame.slots + 1 + i] = peek(vm, arity - i)]_vars

\* sub(5, 2) has just been called: its frame starts at the callee, with 5
\* in slot 1 and 2 in slot 2
C12_Witness ==
  /\ result = "RUNNING"
  /\ instruction = "OP_CALL"
  /\ vm.frameCount = 2
  /\ LET frame == CurrentFrame(vm) IN
     /\ frame.ip = 0
     /\ FunctionOf(vm, frame.closure).arity = 2
     /\ vm.stackTop = frame.slots + 3
     /\ vm.stack[frame.slots + 2] = NUMBER_VAL(5)
     /\ vm.stack[frame.slots + 3] = NUMBER_VAL(2)

-----------------------------------------------------------------------------
(* Closures. *)

(* C13: the closure OP_CLOSURE leaves on the stack has as many upvalue      *)
(* entries as its function's upvalue count and each entry refers to an      *)
(* upvalue object; no step changes the function or an upvalue entry of a    *)
(* closure that exists.                                                     *)
C13_UpvalueArrayFilledOnce ==
  [][/\ (result = "RUNNING" /\ Byte(vm, 0) = "OP_CLOSURE") =>
          /\ peek(vm', 0).t = "closure"
          /\ peek(vm', 0).v \notin 1..Len(vm.objects)
          /\ LET closure == vm'.objects[peek(vm', 0).v] IN
             /\ closure.type = "closure"
             /\ closure.function = READ_CONSTANT(vm).v
             /\ Len(closure.upvalues) = Functions[closure.function].upvalueCount
             /\ \A i \in 1..Len(closure.upvalues) :
                  /\ closure.upvalues[i] # NULL
                  /\ closure.upvalues[i] \in 1..Len(vm'.objects)
                  /\ IsUpvalue(vm', closure.upvalues[i])
     /\ \A c \in 1..Len(vm.objects) :
          IsClosure(vm, c) => vm'.objects[c] = vm.objects[c]]_vars

\* OP_CLOSURE has made the closure of read, whose one entry is the upvalue
\* of the enclosing closure
C13_Witness ==
  /\ result = "RUNNING"
  /\ instruction = "OP_CLOSURE"
  /\ peek(vm, 0).t = "closure"
  /\ LET closure == vm.objects[peek(vm, 0).v] IN
     /\ closure.function = "read"
     /\ closure.upvalues = vm.objects[CurrentFrame(vm).closure].upvalues
     /\ IsUpvalue(vm, closure.upvalues[1])

(* C14: OP_CALL on a value that is neither a closure nor a native, with    *)
(* any number of arguments, is the runtime error "Can only call functions   *)
(* and classes.": no frame is pushed, nothing is pushed on the operand      *)
(* stack, and the run ends.                                                 *)
C14_CallOnOtherValue ==
  [][(/\ result = "RUNNING"
      /\ Byte(vm, 0) = "OP_CALL"
      /\ peek(vm, Byte(vm, 1)).t \notin {"closure", "native"}) =>
       /\ FailsWith("Can only call functions and classes.")
       /\ vm'.stackTop = 0
       /\ stdout' = stdout]_vars

\* a bare function object called with two arguments was reported, in the
\* run after the call of an upvalue object was
C14_Witness ==
  /\ history = <<"callUpvalue1", "callFunction2">>
  /\ ErrorReported
  /\ stderr[1] = "Can only call functions and classes."
  /\ instruction = "OP_CALL"

-----------------------------------------------------------------------------
(* closeUpvalues and captureUpvalue, as relations between the VM before    *)
(* and after.                                                               *)

\* w is v with exactly the open upvalues at or above limit closed
ClosesFrom(v, limit, w) ==
  LET open == OpenList(v)
      Below(u) == Location(v, u) < limit
  IN /\ Len(w.objects) = Len(v.objects)
     /\ \A k \in 1..Len(open) :
          IF Below(open[k])
            THEN w.objects[open[k]] = v.objects[open[k]]
            ELSE /\ Location(w, open[k]) = -open[k]
                 /\ w.objects[open[k]].closed = v.stack[Location(v, open[k]) + 1]
     /\ OpenList(w) = SelectSeq(open, Below)
     /\ \A o \in 1..Len(v.objects) : ~InList(v, o) => w.objects[o] = v.objects[o]

(* C15: closeUpvalues(limit) closes exactly the open upvalues whose slot is *)
(* at or above limit, each with the value of its slot, and takes them out   *)
(* of the list; the open upvalues below limit, and every other object, are  *)
(* unchanged, and the rest of the list keeps its order.  Checked where run  *)
(* calls it, in OP_CLOSE_UPVALUE and OP_RETURN, and for every limit on      *)
(* every state reached.                                                     *)
C15_CloseUpvaluesFromLimit ==
  [][/\ (result = "RUNNING" /\ Byte(vm, 0) = "OP_CLOSE_UPVALUE") =>
          ClosesFrom(vm, vm.stackTop - 1, vm')
     /\ (result = "RUNNING" /\ Byte(vm, 0) = "OP_RETURN") =>
          ClosesFrom(vm, CurrentFrame(vm).slots, vm')
     /\ \A limit \in 0..vm'.stackTop :
          ClosesFrom(vm', limit, closeUpvalues(vm', limit))]_vars

\* OP_CLOSE_UPVALUE has closed the upvalue of the topmost local with the
\* local's value and left the two below it open
C15_Witness ==
  /\ result = "RUNNING"
  /\ instruction = "OP_CLOSE_UPVALUE"
  /\ Len(OpenList(vm)) = 2
  /\ \E u \in 1..Len(vm.objects) :
       /\ IsUpvalue(vm, u)
       /\ IsClosed(vm, u)
       /\ vm.objects[u].closed = vm.stack[vm.stackTop + 1]
       /\ vm.objects[u].closed # NIL_VAL
       /\ vm.objects[u].next = vm.openUpvalues

\* the open upvalues of v whose slot is local
OpenAt(v, local) ==
  {u \in 1..Len(v.objects) : InList(v, u) /\ Location(v, u) = local}

\* cap is what captureUpvalue(local) gives on v
Captures(v, local, cap) ==
  IF OpenAt(v, local) # {} THEN
    /\ cap.upvalue \in OpenAt(v, local)
    /\ cap.vm = v
  ELSE
    LET w == cap.vm
        created == cap.upvalue
        Old(u) == u # created
    IN /\ created = Len(v.objects) + 1
       /\ Len(w.objects) = Len(v.objects) + 1
       /\ IsUpvalue(w, created)
       /\ Location(w, created) = local
       /\ SelectSeq(OpenList(w), Old) = OpenList(v)
       /\ Len(OpenList(w)) = Len(OpenList(v)) + 1
       /\ \A k \in 1..(Len(OpenList(w)) - 1) :
            Location(w, OpenList(w)[k]) > Location(w, OpenList(w)[k + 1])
       /\ \A o \in 1..Len(v.objects) :
            IF IsUpvalue(v, o)
              THEN /\ IsUpvalue(w, o)
                   /\ w.objects[o].location = v.objects[o].location
                   /\ w.objects[o].closed = v.objects[o].closed
              ELSE w.objects[o] = v.objects[o]
       /\ w.stack = v.stack

\* the slots the OP_CLOSURE about to run captures as locals of the frame
CapturedLocals ==
  {CurrentFrame(vm).slots + Byte(vm, 3 + 2 * i) :
     i \in {j \in 0..(Functions[READ_CONSTANT(vm).v].upvalueCount - 1) :
              Byte(vm, 2 + 2 * j) # 0}}

(* C16: captureUpvalue on a slot that has an open upvalue returns that      *)
(* upvalue and changes nothing; on a slot that has none it creates one      *)
(* upvalue for the slot, links it at its sorted place and changes no other  *)
(* upvalue's location or value.  So an OP_CLOSURE creates one upvalue per   *)
(* captured local that has none yet, and every closure that captures a     *)
(* local while it is open holds the one open upvalue of its slot.           *)
C16_CaptureReusesOpenUpvalue ==
  [][/\ (result = "RUNNING" /\ Byte(vm, 0) = "OP_CLOSURE") =>
          /\ Len(vm'.objects) = Len(vm.objects) + 1 +
               Cardinality({s \in CapturedLocals : OpenAt(vm, s) = {}})
          /\ \A s \in CapturedLocals :
               /\ Cardinality(OpenAt(vm', s)) = 1
               /\ OpenAt(vm, s) \subseteq OpenAt(vm', s)
               /\ \E i \in 1..Len(vm'.objects[peek(vm', 0).v].upvalues) :
                    vm'.objects[peek(vm', 0).v].upvalues[i] \in OpenAt(vm', s)
     /\ \A local \in 0..(vm'.stackTop - 1) :
          Captures(vm', local, captureUpvalue(vm', local))]_vars

\* OP_CLOSURE has made the second of two closures that capture the same
\* local of the running function: both hold the one upvalue, which is open
C16_Witness ==
  /\ result = "RUNNING"
  /\ instruction = "OP_CLOSURE"
  /\ peek(vm, 0).t = "closure"
  /\ \E c \in 1..Len(vm.objects) :
       /\ IsClosure(vm, c)
       /\ c # peek(vm, 0).v
       /\ Len(vm.objects[c].upvalues) = 1
       /\ vm.objects[c].upvalues = vm.objects[peek(vm, 0).v].upvalues
       /\ InList(vm, vm.objects[c].upvalues[1])
       /\ Location(vm, vm.objects[c].upvalues[1]) >= CurrentFrame(vm).slots

-----------------------------------------------------------------------------
(* Termination. *)

(* C17: the run of fun r() { r(); } r(); does not go on forever: it ends    *)
(* with the runtime error "Stack overflow.", reported with 64 frames in the *)
(* trace, and the step that ends it is the OP_CALL executed with 64 frames  *)
(* active.                                                                  *)
C17_RecursionEndsInOverflow ==
  /\ (source = "recurse" /\ result = "RUNNING") ~>
       (/\ source = "recurse"
        /\ result = "INTERPRET_RUNTIME_ERROR"
        /\ stderr[1] = "Stack overflow."
        /\ Len(stderr) = FRAMES_MAX + 1)
  /\ [][(source = "recurse" /\ result = "RUNNING" /\ result' # "RUNNING") =>
          /\ Byte(vm, 0) = "OP_CALL"
          /\ vm.frameCount = FRAMES_MAX
          /\ Byte(vm, 1) = CalleeArity
          /\ stderr'[1] = "Stack overflow."]_vars

\* interpret() of the recursion has returned the runtime error, the frames
\* dropped
C17_Witness ==
  /\ source = "recurse"
  /\ result = "INTERPRET_RUNTIME_ERROR"
  /\ instruction = "OP_CALL"
  /\ vm.frameCount = 0
  /\ stderr = <<"Stack overflow.">> \o [k \in 1..(FRAMES_MAX - 1) |-> stderr[2]]
                \o <<stderr[FRAMES_MAX + 1]>>

-----------------------------------------------------------------------------
(* interpret() after interpret(). *)

(* C18: whenever interpret() has returned, with INTERPRET_OK, with          *)
(* INTERPRET_COMPILE_ERROR or with INTERPRET_RUNTIME_ERROR, the operand     *)
(* stack is empty and frameCount is 0; so every interpret() enters run()    *)
(* with its script closure in stack slot 0 and one frame, frame 0, whose    *)
(* slots base is the stack base; and an interpret() whose source does not   *)
(* compile leaves the VM as it was.                                         *)
C18_InterpretLeavesStacksEmpty ==
  [][/\ result' # "RUNNING" => vm'.stackTop = 0 /\ vm'.frameCount = 0
     /\ result' = "RUNNING" => vm'.frameCount >= 1 /\ vm'.frames[1].slots = 0
     /\ (result # "RUNNING" /\ result' = "RUNNING") =>
          /\ vm'.frameCount = 1
          /\ vm'.stackTop = 1
          /\ vm'.frames[1].ip = 0
          /\ vm'.stack[1] = CLOSURE_VAL(vm'.frames[1].closure)
          /\ vm'.objects[vm'.frames[1].closure].function = source'
     /\ (result # "RUNNING" /\ result' = "INTERPRET_COMPILE_ERROR") =>
          vm' = vm]_vars

\* a source that does not compile was passed after a run that ended in a
\* runtime error two calls deep: the stacks are empty, with what that run
\* left above stackTop
C18_Witness ==
  /\ history = <<"typeError", "syntaxError">>
  /\ result = "INTERPRET_COMPILE_ERROR"
  /\ vm.stackTop = 0
  /\ vm.frameCount = 0
  /\ Len(vm.stack) >= 3
  /\ Len(vm.frames) >= 2

-----------------------------------------------------------------------------
(* Upvalues after a runtime error. *)

\* the closures a later instruction can get at: the values of the globals,
\* the values on the operand stack and the closures of the active frames
ReachableClosures(v) ==
  {v.globals[name].v : name \in {n \in DOMAIN v.globals : v.globals[n].t = "closure"}}
  \cup {v.stack[s].v : s \in {k \in 1..v.stackTop : v.stack[k].t = "closure"}}
  \cup {v.frames[k].closure : k \in 1..v.frameCount}

(* C19: every upvalue held by a closure that can still be reached is closed *)
(* or is a member of the open-upvalue list: none points into the operand    *)
(* stack without being in the list.                                         *)
C19_HeldUpvaluesClosedOrListed ==
  \A c \in ReachableClosures(vm) :
    \A i \in 1..Len(vm.objects[c].upvalues) :
      LET u == vm.objects[c].upvalues[i] IN
      u # NULL => IsClosed(vm, u) \/ InList(vm, u)

-----------------------------------------------------------------------------
(* The open list and the live stack. *)

\* slot is a slot above slot 0 in the window of the active frame k
InWindow(v, k, slot) ==
  /\ v.frames[k].slots < slot
  /\ slot < (IF k < v.frameCount THEN v.frames[k + 1].slots ELSE v.stackTop)

(* C20: in every state, each upvalue in the open list points to a stack     *)
(* slot below stackTop that lies in the window of an active frame, above    *)
(* the frame's slot 0.  The programs are compiler output: a captured local  *)
(* leaves scope through OP_CLOSE_UPVALUE or OP_RETURN.                      *)
C20_OpenUpvaluesPointToLiveSlots ==
  \A n \in 1..Len(OpenList(vm)) :
    LET slot == Location(vm, OpenList(vm)[n]) IN
    /\ 0 <= slot
    /\ slot < vm.stackTop
    /\ \E k \in 1..vm.frameCount : InWindow(vm, k, slot)

\* add1 has just read x through the open upvalue that points into the
\* window of its caller keep, and x is still 1
C20_Witness ==
  /\ result = "RUNNING"
  /\ instruction = "OP_GET_UPVALUE"
  /\ vm.frameCount = 3
  /\ Len(OpenList(vm)) = 1
  /\ InWindow(vm, 2, Location(vm, OpenList(vm)[1]))
  /\ peek(vm, 0) = NUMBER_VAL(1)
  /\ peek(vm, 0) = Deref(vm, Location(vm, OpenList(vm)[1]))

=============================================================================
